---- MODULE Spec2Model ----
(***************************************************************************)
(* Smart Inventory Management System: wearhouse.py                         *)
(*                                                                         *)
(* The module-level state of wearhouse.py (INVENTORY, ledger, order_queue, *)
(* backorder_queue, delivery_truck), the console, the wall clock, and one  *)
(* action per menu choice of main().                                       *)
(*                                                                         *)
(* Conventions.  Python lists and tuples are TLA+ sequences, so p[0] of    *)
(* the source is p[1] here: a product is <<id, name, category, price,      *)
(* stock>> and an order is <<order_id, product_id, quantity>>.  Prices are *)
(* held in hundredths (75.50 is 7550).  A line typed at a prompt is a      *)
(* sequence of one-character strings, parsed as int() and float() parse.   *)
(* The wall clock `now` counts sub-second ticks; int(timestamp()) is the   *)
(* whole number of seconds in it.                                          *)
(***************************************************************************)
EXTENDS Integers, Sequences, FiniteSets, TLC

VARIABLES INVENTORY, ledger, order_queue, backorder_queue, delivery_truck,
          now, running, out

vars == <<INVENTORY, ledger, order_queue, backorder_queue, delivery_truck,
          now, running, out>>

(* ------------------------------ bounds --------------------------------- *)

MaxAdded == 2

MaxOrders == 2

MaxClock == 1

\* how deep the calls of calculate_composite_cost are followed
MaxCallDepth == 4

TicksPerSecond == 2

(* ------------------------- the seeded globals -------------------------- *)

SeedInventory ==
    << <<101, "Gaming Mouse", "Electronics", 7550, 80>>,
       <<102, "Mechanical Keyboard", "Electronics", 12000, 50>>,
       <<103, "Webcam", "Electronics", 9000, 60>>,
       <<201, "Office Chair", "Furniture", 15000, 30>>,
       <<202, "Desk Lamp", "Furniture", 4575, 100>>,
       <<901, "Gamer PC Bundle", "Composite", 0, 10>> >>

\* a bundle that lists itself among its parts
COMPOSITE_PRODUCTS_cyclic == [k \in {901} |-> <<101, 102, 901>>]

COMPOSITE_PRODUCTS == [k \in {901} |-> <<101, 102, 103>>]

(* ------------------------- what the user types ------------------------- *)

NameInputs == {"Headset"}

CategoryInputs == {"Electronics"}

\* <<price, stock>> as typed at the two prompts of add_new_product
ProductInputs ==
    { << <<"1", "9", ".", "9", "9">>, <<"5">> >>,
      << <<"1", "9", ".", "9", "9">>, <<"-", "3">> >>,
      << <<"a", "b", "c">>, <<"5">> >>,
      << <<"1", "9", ".", "9", "9">>, <<"4", ".", "5">> >> }

\* <<product id, quantity>> as typed at the two prompts of place_order
OrderInputs ==
    { << <<"2", "0", "2">>, <<" ", "9", "0">> >>,
      << <<"2", "0", "2">>, <<"1", "5", "0">> >>,
      << <<"1", "0", "1">>, <<"2", "0", "0">> >>,
      << <<"1", "0", "1">>, <<"-", "5">> >>,
      << <<"9", "9", "9">>, <<"1">> >>,
      << <<"x">>, <<"1">> >>,
      << <<"1", "0", "1">>, <<"t", "e", "n">> >> }

CostIdInputs == { <<"9", "0", "1">>, <<"9", "9", "9">>, <<"x">> }

\* a line at the menu prompt that is none of the eight choices
ChoiceInputs == {"9"}

(* ------------------------------ parsing -------------------------------- *)

Digits == <<"0", "1", "2", "3", "4", "5", "6", "7", "8", "9">>

IsDigit(c) == \E i \in 1..10 : Digits[i] = c

DigitVal(c) == (CHOOSE i \in 1..10 : Digits[i] = c) - 1

RECURSIVE DecVal(_)
DecVal(ds) ==
    IF ds = <<>> THEN 0
    ELSE 10 * DecVal(SubSeq(ds, 1, Len(ds) - 1)) + DigitVal(ds[Len(ds)])

AllDigits(s) == \A i \in 1..Len(s) : IsDigit(s[i])

RECURSIVE strip(_)
strip(s) ==
    IF s = <<>> THEN s
    ELSE IF s[1] = " " THEN strip(Tail(s))
    ELSE IF s[Len(s)] = " " THEN strip(SubSeq(s, 1, Len(s) - 1))
    ELSE s

ValueError == [ok |-> FALSE, val |-> 0]

(* int(text): surrounding blanks, an optional sign, one or more digits.    *)
int(text) ==
    LET t      == strip(text)
        signed == t # <<>> /\ t[1] \in {"+", "-"}
        body   == IF signed THEN Tail(t) ELSE t
        sign   == IF signed /\ t[1] = "-" THEN -1 ELSE 1
    IN  IF body = <<>> \/ ~AllDigits(body)
        THEN ValueError
        ELSE [ok |-> TRUE, val |-> sign * DecVal(body)]

(* float(text), in hundredths: blanks, an optional sign, digits with an    *)
(* optional point and up to two decimals (the inputs drawn here have no    *)
(* exponent and no more than two decimals).                                *)
float(text) ==
    LET t      == strip(text)
        signed == t # <<>> /\ t[1] \in {"+", "-"}
        body   == IF signed THEN Tail(t) ELSE t
        sign   == IF signed /\ t[1] = "-" THEN -1 ELSE 1
        dots   == {i \in 1..Len(body) : body[i] = "."}
        dot    == IF dots = {} THEN Len(body) + 1
                  ELSE CHOOSE i \in dots : \A j \in dots : i <= j
        whole  == SubSeq(body, 1, dot - 1)
        frac   == SubSeq(body, dot + 1, Len(body))
        cents  == IF Len(frac) = 0 THEN 0
                  ELSE IF Len(frac) = 1 THEN 10 * DecVal(frac)
                  ELSE DecVal(frac)
    IN  IF \/ Cardinality(dots) > 1
           \/ Len(whole) + Len(frac) = 0
           \/ ~AllDigits(whole) \/ ~AllDigits(frac)
           \/ Len(frac) > 2
        THEN ValueError
        ELSE [ok |-> TRUE, val |-> sign * (100 * DecVal(whole) + cents)]

(* ------------------------------ console -------------------------------- *)

Line(text, name, num) == [text |-> text, name |-> name, num |-> num]

(* ------------------------------ helpers -------------------------------- *)

None == <<>>

\* int(datetime.datetime.now().timestamp())
timestamp_int(t) == t \div TicksPerSecond

\* a ledger that puts the newest record first
add_transaction_prepending(transactions, product_id, description, quantity_change) ==
    <<[timestamp       |-> now,
       product_id      |-> product_id,
       description     |-> description,
       quantity_change |-> quantity_change]>> \o transactions

add_transaction(transactions, product_id, description, quantity_change) ==
    Append(transactions,
           [timestamp       |-> now,
            product_id      |-> product_id,
            description     |-> description,
            quantity_change |-> quantity_change])

\* a lookup that falls back to the first product instead of returning None
_get_product_by_id_defaulting(product_id) ==
    LET hits == {i \in 1..Len(INVENTORY) : INVENTORY[i][1] = product_id}
    IN  IF hits = {} THEN INVENTORY[1]
        ELSE INVENTORY[CHOOSE i \in hits : \A j \in hits : i <= j]

_get_product_by_id(product_id) ==
    LET hits == {i \in 1..Len(INVENTORY) : INVENTORY[i][1] = product_id}
    IN  IF hits = {} THEN None
        ELSE INVENTORY[CHOOSE i \in hits : \A j \in hits : i <= j]

RECURSIVE MaxId(_)
MaxId(inv) ==
    IF Len(inv) = 1 THEN inv[1][1]
    ELSE LET m == MaxId(Tail(inv))
         IN  IF inv[1][1] > m THEN inv[1][1] ELSE m

\* an id taken from the number of products instead of the largest id
next_product_id_by_count(inv) == Len(inv) + 1

\* max(p[0] for p in INVENTORY) + 1
next_product_id(inv) == MaxId(inv) + 1

\* the price column read where the stock column is meant
has_sufficient_stock_by_price(product, quantity) == product[4] >= quantity

\* product[4] >= quantity
has_sufficient_stock(product, quantity) == product[5] >= quantity

\* deque.appendleft in place of deque.append
deque_appendleft(queue, order) == <<order>> \o queue

\* order_queue.append(order)
deque_append(queue, order) == Append(queue, order)

(* tuple comparison of Python: lexicographic, a < b *)
TupleLess(a, b) ==
    \/ a[1] < b[1]
    \/ a[1] = b[1] /\ a[2] < b[2]
    \/ a[1] = b[1] /\ a[2] = b[2] /\ a[3] < b[3]

(* heapq._siftdown(heap, 0, pos) with the item being placed held aside;    *)
(* the parent of position pos (counted from 1) is pos \div 2.              *)
RECURSIVE _siftdown(_, _, _)
_siftdown(heap, pos, newitem) ==
    IF pos > 1 /\ TupleLess(newitem, heap[pos \div 2])
    THEN _siftdown([heap EXCEPT ![pos] = heap[pos \div 2]], pos \div 2, newitem)
    ELSE [heap EXCEPT ![pos] = newitem]

\* list.append in place of heapq.heappush
heappush_unsorted(heap, item) == Append(heap, item)

heappush(heap, item) == _siftdown(Append(heap, item), Len(heap) + 1, item)

(* --------------------------- initial state ----------------------------- *)

\* for product in INVENTORY: ledger.add_transaction(product[0], "initial stock", product[4])
RECURSIVE InitialLedger(_, _)
InitialLedger(inv, t) ==
    IF inv = <<>> THEN <<>>
    ELSE <<[timestamp       |-> t,
            product_id      |-> inv[1][1],
            description     |-> "initial stock",
            quantity_change |-> inv[1][5]]>> \o InitialLedger(Tail(inv), t)

\* a program that starts with no products
Init_empty_catalog ==
    /\ INVENTORY = <<>>
    /\ now = 0
    /\ ledger = <<>>
    /\ order_queue = <<>>
    /\ backorder_queue = <<>>
    /\ delivery_truck = <<>>
    /\ running = TRUE
    /\ out = Line("", "", 0)

Init ==
    /\ INVENTORY = SeedInventory
    /\ now = 0
    /\ ledger = InitialLedger(SeedInventory, 0)
    /\ order_queue = <<>>
    /\ backorder_queue = <<>>
    /\ delivery_truck = <<>>
    /\ running = TRUE
    /\ out = Line("", "", 0)

(* --------------------------- core functions ---------------------------- *)

RECURSIVE total_value(_)
total_value(inv) ==
    IF inv = <<>> THEN 0 ELSE inv[1][4] * inv[1][5] + total_value(Tail(inv))

generate_inventory_report ==
    /\ running
    /\ out' = Line("Total inventory value", "", total_value(INVENTORY))
    /\ UNCHANGED <<INVENTORY, ledger, order_queue, backorder_queue,
                   delivery_truck, now, running>>

display_ledger ==
    /\ running
    /\ out' = IF ledger = <<>>
              THEN Line("No transactions recorded yet.", "", 0)
              ELSE Line("Transaction Ledger", "", Len(ledger))
    /\ UNCHANGED <<INVENTORY, ledger, order_queue, backorder_queue,
                   delivery_truck, now, running>>

\* a cost lookup that never consults COMPOSITE_PRODUCTS
catalog_price_only(product_id) ==
    LET product == _get_product_by_id(product_id)
    IN  IF product # None THEN product[4] ELSE 0

RECURSIVE calculate_composite_cost(_)
RECURSIVE SumCosts(_)
SumCosts(parts) ==
    IF parts = <<>> THEN 0
    ELSE calculate_composite_cost(parts[1]) + SumCosts(Tail(parts))

calculate_composite_cost(product_id) ==
    IF product_id \notin DOMAIN COMPOSITE_PRODUCTS
    THEN LET product == _get_product_by_id(product_id)
         IN  IF product # None THEN product[4] ELSE 0
    ELSE SumCosts(COMPOSITE_PRODUCTS[product_id])

\* the nesting of the calls that calculate_composite_cost(product_id) makes,
\* itself included, followed for at most fuel further levels
RECURSIVE call_depth(_, _)
call_depth(product_id, fuel) ==
    IF product_id \notin DOMAIN COMPOSITE_PRODUCTS \/ fuel = 0
    THEN 1
    ELSE LET parts  == COMPOSITE_PRODUCTS[product_id]
             depths == {call_depth(parts[i], fuel - 1) : i \in 1..Len(parts)}
         IN  1 + (IF depths = {} THEN 0
                  ELSE CHOOSE d \in depths : \A e \in depths : e <= d)

\* the product already appended when the stock line turns out not to be a number
add_new_product_appending_early(name, category, priceText, stockText) ==
    /\ running
    /\ LET price       == float(priceText)
           stock       == int(stockText)
           new_id      == next_product_id(INVENTORY)
           new_product == <<new_id, name, category, price.val, stock.val>>
       IN  IF ~price.ok
           THEN /\ out' = Line("Invalid input. Please enter numbers for price and stock.", "", 0)
                /\ UNCHANGED <<INVENTORY, ledger>>
           ELSE /\ Len(INVENTORY) < Len(SeedInventory) + MaxAdded
                /\ INVENTORY' = Append(INVENTORY, new_product)
                /\ IF ~stock.ok
                   THEN /\ out' = Line("Invalid input. Please enter numbers for price and stock.", "", 0)
                        /\ UNCHANGED ledger
                   ELSE /\ ledger' = add_transaction(ledger, new_id, "initial stock", stock.val)
                        /\ out' = Line("Successfully added", name, new_id)
    /\ UNCHANGED <<order_queue, backorder_queue, delivery_truck, now, running>>

add_new_product(name, category, priceText, stockText) ==
    /\ running
    /\ LET price == float(priceText)
           stock == int(stockText)
       IN  IF ~price.ok \/ ~stock.ok
           THEN /\ out' = Line("Invalid input. Please enter numbers for price and stock.", "", 0)
                /\ UNCHANGED <<INVENTORY, ledger>>
           ELSE LET new_id      == next_product_id(INVENTORY)
                    new_product == <<new_id, name, category, price.val, stock.val>>
                IN  /\ Len(INVENTORY) < Len(SeedInventory) + MaxAdded
                    /\ INVENTORY' = Append(INVENTORY, new_product)
                    /\ ledger' = add_transaction(ledger, new_id, "initial stock", stock.val)
                    /\ out' = Line("Successfully added", name, new_id)
    /\ UNCHANGED <<order_queue, backorder_queue, delivery_truck, now, running>>

\* an order that takes its quantity out of the stock when it is queued for processing
place_order_decrementing(idText, quantityText) ==
    /\ running
    /\ LET product_id == int(idText)
           product    == _get_product_by_id(product_id.val)
           quantity   == int(quantityText)
           order_id   == timestamp_int(now)
           order      == <<order_id, product_id.val, quantity.val>>
       IN  IF ~product_id.ok
           THEN /\ out' = Line("Invalid input. Please use numbers.", "", 0)
                /\ UNCHANGED <<INVENTORY, order_queue, backorder_queue>>
           ELSE IF product = None
           THEN /\ out' = Line("Error: Product not found.", "", 0)
                /\ UNCHANGED <<INVENTORY, order_queue, backorder_queue>>
           ELSE IF ~quantity.ok
           THEN /\ out' = Line("Invalid input. Please use numbers.", "", 0)
                /\ UNCHANGED <<INVENTORY, order_queue, backorder_queue>>
           ELSE /\ Len(order_queue) + Len(backorder_queue) < MaxOrders
                /\ IF has_sufficient_stock(product, quantity.val)
                   THEN /\ out' = Line("Sufficient stock. Order placed in the processing queue.", "", 0)
                        /\ order_queue' = deque_append(order_queue, order)
                        /\ INVENTORY' =
                              [i \in 1..Len(INVENTORY) |->
                                 IF INVENTORY[i][1] = product_id.val
                                 THEN [INVENTORY[i] EXCEPT ![5] = @ - quantity.val]
                                 ELSE INVENTORY[i]]
                        /\ UNCHANGED backorder_queue
                   ELSE /\ out' = Line("Insufficient stock. Order placed in the backorder queue.", "", 0)
                        /\ backorder_queue' = heappush(backorder_queue, order)
                        /\ UNCHANGED <<INVENTORY, order_queue>>
    /\ UNCHANGED <<ledger, delivery_truck, now, running>>

place_order(idText, quantityText) ==
    /\ running
    /\ LET product_id == int(idText)
           product    == _get_product_by_id(product_id.val)
           quantity   == int(quantityText)
           order_id   == timestamp_int(now)
           order      == <<order_id, product_id.val, quantity.val>>
       IN  IF ~product_id.ok
           THEN /\ out' = Line("Invalid input. Please use numbers.", "", 0)
                /\ UNCHANGED <<order_queue, backorder_queue>>
           ELSE IF product = None
           THEN /\ out' = Line("Error: Product not found.", "", 0)
                /\ UNCHANGED <<order_queue, backorder_queue>>
           ELSE IF ~quantity.ok
           THEN /\ out' = Line("Invalid input. Please use numbers.", "", 0)
                /\ UNCHANGED <<order_queue, backorder_queue>>
           ELSE /\ Len(order_queue) + Len(backorder_queue) < MaxOrders
                /\ IF has_sufficient_stock(product, quantity.val)
                   THEN /\ out' = Line("Sufficient stock. Order placed in the processing queue.", "", 0)
                        /\ order_queue' = deque_append(order_queue, order)
                        /\ UNCHANGED backorder_queue
                   ELSE /\ out' = Line("Insufficient stock. Order placed in the backorder queue.", "", 0)
                        /\ backorder_queue' = heappush(backorder_queue, order)
                        /\ UNCHANGED order_queue
    /\ UNCHANGED <<INVENTORY, ledger, delivery_truck, now, running>>

(* ------------------------- the rest of main() -------------------------- *)

\* the stub filled in: the order at the head goes onto the truck
process_next_order_dequeuing ==
    /\ running
    /\ out' = Line("Processing next order...", "", 0)
    /\ IF order_queue = <<>>
       THEN UNCHANGED <<order_queue, delivery_truck>>
       ELSE /\ order_queue' = Tail(order_queue)
            /\ delivery_truck' = Append(delivery_truck, Head(order_queue))
    /\ UNCHANGED <<INVENTORY, ledger, backorder_queue, now, running>>

process_next_order ==
    /\ running
    /\ out' = Line("Processing next order...", "", 0)
    /\ UNCHANGED <<INVENTORY, ledger, order_queue, backorder_queue,
                   delivery_truck, now, running>>

dispatch_truck ==
    /\ running
    /\ out' = Line("Dispatching truck...", "", 0)
    /\ UNCHANGED <<INVENTORY, ledger, order_queue, backorder_queue,
                   delivery_truck, now, running>>

\* choice '7': int(input(...)) is outside any try, so a bad line ends the run
composite_cost_choice(idText) ==
    /\ running
    /\ LET pid == int(idText)
       IN  IF ~pid.ok
           THEN /\ out' = Line("ValueError", "", 0)
                /\ running' = FALSE
           ELSE /\ out' = Line("Calculated cost", "", calculate_composite_cost(pid.val))
                /\ UNCHANGED running
    /\ UNCHANGED <<INVENTORY, ledger, order_queue, backorder_queue,
                   delivery_truck, now>>

exit_choice ==
    /\ running
    /\ out' = Line("Exiting the system. Goodbye!", "", 0)
    /\ running' = FALSE
    /\ UNCHANGED <<INVENTORY, ledger, order_queue, backorder_queue,
                   delivery_truck, now>>

invalid_choice(choice) ==
    /\ running
    /\ choice \notin {"1", "2", "3", "4", "5", "6", "7", "8"}
    /\ out' = Line("Invalid choice. Please try again.", "", 0)
    /\ UNCHANGED <<INVENTORY, ledger, order_queue, backorder_queue,
                   delivery_truck, now, running>>

\* the wall clock moves on while the program waits at a prompt; it is taken
\* to run forward only, and any number of calls may fall between two ticks
Tick ==
    /\ running
    /\ now < MaxClock
    /\ now' = now + 1
    /\ UNCHANGED <<INVENTORY, ledger, order_queue, backorder_queue,
                   delivery_truck, running, out>>

\* one pass of the while loop of main(): the branch of the choice typed
Next ==
    \/ generate_inventory_report
    \/ \E name \in NameInputs, category \in CategoryInputs, typed \in ProductInputs :
          add_new_product(name, category, typed[1], typed[2])
    \/ display_ledger
    \/ \E typed \in OrderInputs : place_order(typed[1], typed[2])
    \/ process_next_order
    \/ dispatch_truck
    \/ \E idText \in CostIdInputs : composite_cost_choice(idText)
    \/ exit_choice
    \/ \E choice \in ChoiceInputs : invalid_choice(choice)
    \/ Tick

Spec == Init /\ [][Next]_vars

(* ------------------------------ properties ----------------------------- *)

Count(x, queue) == Cardinality({i \in 1..Len(queue) : queue[i] = x})

Orders == order_queue \o backorder_queue

\* the order (order_id, product_id, quantity) of the tuples, written out
LexLess(a, b) ==
    IF a[1] # b[1] THEN a[1] < b[1]
    ELSE IF a[2] # b[2] THEN a[2] < b[2]
    ELSE a[3] < b[3]

StockOf(product_id) ==
    INVENTORY[CHOOSE i \in 1..Len(INVENTORY) : INVENTORY[i][1] = product_id][5]

InCatalog(product_id) == \E i \in 1..Len(INVENTORY) : INVENTORY[i][1] = product_id

\* C1: a place_order call on a catalog product with a numeric quantity Q adds
\* the order (order_id, product_id, Q) exactly once to exactly one queue: to
\* order_queue if and only if the product's stock S >= Q, else to backorder_queue.
C1_RoutedByStock ==
    [][\A typed \in OrderInputs :
         LET product_id == int(typed[1])
             quantity   == int(typed[2])
             order      == <<now \div TicksPerSecond, product_id.val, quantity.val>>
         IN  ( /\ order_queue' # order_queue \/ backorder_queue' # backorder_queue
               /\ product_id.ok /\ quantity.ok /\ InCatalog(product_id.val)
               /\ place_order(typed[1], typed[2]) )
             => IF StockOf(product_id.val) >= quantity.val
                THEN /\ order_queue' = Append(order_queue, order)
                     /\ backorder_queue' = backorder_queue
                ELSE /\ order_queue' = order_queue
                     /\ Len(backorder_queue') = Len(backorder_queue) + 1
                     /\ \A i \in 1..Len(backorder_queue') :
                          Count(backorder_queue'[i], backorder_queue') =
                            Count(backorder_queue'[i], backorder_queue)
                              + (IF backorder_queue'[i] = order THEN 1 ELSE 0)
      ]_vars

C1_Witness ==
    /\ out.text = "Insufficient stock. Order placed in the backorder queue."
    /\ Len(order_queue) >= 1
    /\ order_queue[1][3] >= 1
    /\ Len(backorder_queue) >= 1

\* C2: the id given to a newly added product is strictly greater than every id
\* already in the catalog, and so than every id assigned before it; the catalog
\* only changes by taking the new product at its end.
C2_IdsStrictlyIncrease ==
    [][INVENTORY' # INVENTORY =>
         /\ Len(INVENTORY') = Len(INVENTORY) + 1
         /\ SubSeq(INVENTORY', 1, Len(INVENTORY)) = INVENTORY
         /\ \A i \in 1..Len(INVENTORY) :
              INVENTORY'[Len(INVENTORY')][1] > INVENTORY[i][1]
         /\ out'.num = INVENTORY'[Len(INVENTORY')][1]
      ]_vars

C2_Witness ==
    /\ Len(INVENTORY) = Len(SeedInventory) + 2
    /\ out.text = "Successfully added"
    /\ out.num = 903
    /\ INVENTORY[Len(INVENTORY) - 1][1] = 902

\* C3: the ledger is append-only: a step that changes it makes it exactly one
\* entry longer and keeps every earlier entry at its position, and every
\* successful add_new_product is such a step.
C3_LedgerAppendOnly ==
    [][/\ ledger' # ledger =>
            /\ Len(ledger') = Len(ledger) + 1
            /\ \A i \in 1..Len(ledger) : ledger'[i] = ledger[i]
       /\ INVENTORY' # INVENTORY => Len(ledger') = Len(ledger) + 1
      ]_vars

C3_Witness ==
    /\ Len(ledger) = Len(SeedInventory) + 2
    /\ ledger[Len(ledger)].timestamp > ledger[Len(ledger) - 1].timestamp
    /\ ledger[Len(ledger)].quantity_change # ledger[Len(ledger) - 1].quantity_change

\* C4: order_queue is first-in first-out: a step that changes it puts the order
\* being submitted at the tail and leaves the orders already queued in place,
\* so an earlier sufficient-stock order is always nearer the head.
C4_OrderQueueFifo ==
    [][order_queue' # order_queue =>
         /\ Len(order_queue') = Len(order_queue) + 1
         /\ \A i \in 1..Len(order_queue) : order_queue'[i] = order_queue[i]
         /\ order_queue'[Len(order_queue')][1] = now \div TicksPerSecond
         /\ StockOf(order_queue'[Len(order_queue')][2]) >=
              order_queue'[Len(order_queue')][3]
      ]_vars

C4_Witness ==
    /\ Len(order_queue) >= 2
    /\ order_queue[1] # order_queue[2]
    /\ LexLess(order_queue[2], order_queue[1])

C6_CompositeCost ==
    /\ calculate_composite_cost(901) = 28550
    /\ calculate_composite_cost(901) =
         calculate_composite_cost(101) + calculate_composite_cost(102)
           + calculate_composite_cost(103)
    /\ \A i \in 1..Len(INVENTORY) :
         INVENTORY[i][1] \notin DOMAIN COMPOSITE_PRODUCTS =>
           calculate_composite_cost(INVENTORY[i][1]) = INVENTORY[i][4]

C6_Witness ==
    /\ out.text = "Calculated cost"
    /\ out.num = 28550
    /\ Len(INVENTORY) > Len(SeedInventory)
    /\ Len(order_queue) >= 1
    /\ Len(backorder_queue) >= 1

\* C7: place_order leaves the catalog and the ledger as they were, whichever
\* queue the order goes to and also when the call fails: no step that changes
\* the catalog or the ledger is a place_order call.
C7_PlaceOrderKeepsCatalog ==
    [][(INVENTORY' # INVENTORY \/ ledger' # ledger)
         => ~ \E typed \in OrderInputs : place_order(typed[1], typed[2])
      ]_vars

C7_Witness ==
    /\ out.text = "Sufficient stock. Order placed in the processing queue."
    /\ Len(order_queue) >= 1
    /\ order_queue[Len(order_queue)][3] >= 1
    /\ StockOf(order_queue[Len(order_queue)][2]) >= order_queue[Len(order_queue)][3]

FailureTexts ==
    { "Error: Product not found.",
      "Invalid input. Please use numbers.",
      "Invalid input. Please enter numbers for price and stock." }

\* C8: a step that ends with place_order or add_new_product reporting a failure
\* (product not found, or a line that is not a number) leaves the catalog, the
\* ledger and both queues unchanged and the program running.
C8_FailureChangesNothing ==
    [][out'.text \in FailureTexts
         => /\ UNCHANGED <<INVENTORY, ledger, order_queue, backorder_queue>>
            /\ running'
      ]_vars

C8_Witness ==
    /\ out.text = "Error: Product not found."
    /\ running
    /\ Len(INVENTORY) > Len(SeedInventory)
    /\ Len(order_queue) + Len(backorder_queue) >= 1

\* C9: no two orders held in order_queue and backorder_queue share an order_id.
C9_OrderIdsUnique ==
    \A i, j \in 1..Len(Orders) : i # j => Orders[i][1] # Orders[j][1]

\* C10: every order held in order_queue or backorder_queue has quantity >= 1.
C10_QuantityPositive ==
    \A i \in 1..Len(Orders) : Orders[i][3] >= 1

\* C11: every product in the catalog has stock_quantity >= 0.
C11_StockNonNegative ==
    \A i \in 1..Len(INVENTORY) : INVENTORY[i][5] >= 0

\* ids a user may ask the cost of, in and out of the catalog
ProbeIds == {-1, 0, 100, 104, 203, 900, 902, 903, 904, 999}

Absent(product_id) ==
    ~InCatalog(product_id) /\ product_id \notin DOMAIN COMPOSITE_PRODUCTS

\* C12: the cost of an id that is neither a composite key nor a catalog id is
\* 0, computing it does not end the program, and a component list that holds
\* such an id counts that part as 0.
C12_AbsentIdCostsZero ==
    /\ \A product_id \in ProbeIds :
         Absent(product_id) =>
           /\ calculate_composite_cost(product_id) = 0
           /\ SumCosts(<<101, product_id, 103>>) =
                calculate_composite_cost(101) + calculate_composite_cost(103)
    /\ out.text = "Calculated cost" => running

C12_Witness ==
    /\ out.text = "Calculated cost"
    /\ out.num = 0
    /\ running
    /\ Absent(999)
    /\ Len(INVENTORY) > Len(SeedInventory)

\* C13: the read-only choices (inventory report, ledger display, composite
\* cost, and the stubs 5 and 6) leave the catalog, the ledger, both queues and
\* the truck as they were: no step that changes one of them is such a choice.
C13_ReadOnlyChoices ==
    [][( \/ INVENTORY' # INVENTORY \/ ledger' # ledger
         \/ order_queue' # order_queue \/ backorder_queue' # backorder_queue
         \/ delivery_truck' # delivery_truck )
         => ~ ( \/ generate_inventory_report
                \/ display_ledger
                \/ process_next_order
                \/ dispatch_truck
                \/ \E idText \in CostIdInputs : composite_cost_choice(idText) )
      ]_vars

C13_Witness ==
    /\ out.text = "Processing next order..."
    /\ Len(order_queue) >= 1
    /\ Len(backorder_queue) >= 1
    /\ Len(INVENTORY) > Len(SeedInventory)

\* C14: the ledger has exactly one entry per catalog product, in catalog order:
\* the i-th entry carries the i-th product's id, the description "initial
\* stock" and that product's current stock.
C14_LedgerMatchesCatalog ==
    /\ Len(ledger) = Len(INVENTORY)
    /\ \A i \in 1..Len(INVENTORY) :
         /\ ledger[i].product_id = INVENTORY[i][1]
         /\ ledger[i].description = "initial stock"
         /\ ledger[i].quantity_change = INVENTORY[i][5]

C14_Witness ==
    /\ Len(INVENTORY) = Len(SeedInventory) + 2
    /\ INVENTORY[Len(INVENTORY)][5] # INVENTORY[Len(INVENTORY) - 1][5]
    /\ out.text = "Invalid input. Please enter numbers for price and stock."

\* C15: every order in order_queue asks for no more than the current stock of
\* its product, and every order in backorder_queue for more than it.
C15_RoutingStaysValid ==
    /\ \A i \in 1..Len(order_queue) :
         /\ InCatalog(order_queue[i][2])
         /\ order_queue[i][3] <= StockOf(order_queue[i][2])
    /\ \A i \in 1..Len(backorder_queue) :
         /\ InCatalog(backorder_queue[i][2])
         /\ backorder_queue[i][3] > StockOf(backorder_queue[i][2])

C15_Witness ==
    /\ Len(order_queue) >= 1
    /\ Len(backorder_queue) >= 1
    /\ order_queue[1][3] >= 1
    /\ out.text = "Dispatching truck..."

\* C16: the catalog is never empty and never shrinks: it always starts with the
\* six seeded products, and a step keeps every product it already holds.
C16_CatalogNeverShrinks ==
    /\ [](/\ Len(INVENTORY) >= Len(SeedInventory)
          /\ Len(SeedInventory) = 6
          /\ SubSeq(INVENTORY, 1, Len(SeedInventory)) = SeedInventory)
    /\ [][/\ Len(INVENTORY') >= Len(INVENTORY)
          /\ \A i \in 1..Len(INVENTORY) : INVENTORY'[i] = INVENTORY[i]
         ]_vars

C16_Witness ==
    /\ Len(INVENTORY) = Len(SeedInventory) + 2
    /\ Len(Orders) = 2
    /\ out.text = "Total inventory value"

\* C17: calculate_composite_cost never nests more than two calls deep, for any
\* id asked and whatever the catalog and the queues hold: no part of a
\* composite is itself a composite key.
C17_CostRecursionBounded ==
    /\ \A product_id \in ProbeIds \union DOMAIN COMPOSITE_PRODUCTS
                         \union {INVENTORY[i][1] : i \in 1..Len(INVENTORY)} :
         call_depth(product_id, MaxCallDepth) <= 2
    /\ \A k \in DOMAIN COMPOSITE_PRODUCTS :
         \A i \in 1..Len(COMPOSITE_PRODUCTS[k]) :
           COMPOSITE_PRODUCTS[k][i] \notin DOMAIN COMPOSITE_PRODUCTS

C17_Witness ==
    /\ out.text = "Calculated cost"
    /\ out.num = 28550
    /\ Len(INVENTORY) = Len(SeedInventory) + 2
    /\ Len(Orders) = 2

====
